---- MODULE Spec2Model ----
(***************************************************************************)
(* A model of python_gdrive/client.py: the GoogleDrive client, its         *)
(* token-refresh-and-retry request path, download with expired-link        *)
(* recovery, and the two pagination generators.                            *)
(*                                                                         *)
(* The client is synchronous and single-threaded.  A public call is run    *)
(* as a stack of frames; every HTTP round-trip is one step whose answer    *)
(* (status and JSON body) is chosen by the remote server.                  *)
(***************************************************************************)
EXTENDS Integers, Sequences, FiniteSets, TLC

VARIABLES
    token,             \* self.token
    refresh_token,     \* self.refresh_token
    client_id,         \* self.client_id
    client_secret,     \* self.client_secret
    refresh_callback,  \* self.refresh_callback (None or a callable)
    ctor,              \* ghost: the arguments __init__ was called with
    stack,             \* frames of the running public call, innermost last
    call,              \* ghost: the public call that is running / ran last
    outcome,           \* "idle", "running", "returned" or "raised"
    result,            \* what the last finished call returned or raised
    http,              \* ghost: HTTP round-trips of the current public call
    cbLog,             \* ghost: refresh_callback invocations of the call
    errors,            \* ghost: LOGGER.error records of the current call
    dl,                \* ghost: what download did about an expired link
    pages,             \* the server's listing, as pages
    gen                \* the generator objects, by name

clientVars == <<token, refresh_token, client_id, client_secret, refresh_callback, ctor>>
callVars == <<stack, call, outcome, result, http, cbLog, errors, dl>>
vars == <<token, refresh_token, client_id, client_secret, refresh_callback, ctor,
          stack, call, outcome, result, http, cbLog, errors, dl, pages, gen>>

---------------------------------------------------------------------------
(* Values                                                                  *)

None == "None"

\* Python's None for an optional argument is <<>>, a given value v is <<v>>.
Last(s) == s[Len(s)]
Front(s) == SubSeq(s, 1, Len(s) - 1)

\* Bounds of the model
MaxPages == 3
MaxItems == 2
MaxGen401 == 1
PairPages == 2

DefaultCount == 100

Statuses == {200, 401, 403, 404, 500}
FreshTokens == {"tok1", "tok2"}
FileIds == {"F1"}
OldUrl == "https://old"
NewUrl == "https://new"
TokenNames == <<"t1", "t2", "t3", "t4", "t5", "t6">>

BaseUrl == "https://www.googleapis.com/drive/v2/"
TokenUrl == "https://accounts.google.com/o/oauth2/token"
FolderFilter == "mimeType != 'application/vnd.google-apps.folder'"

\* A decoded JSON body, read the way the client reads it: .get('downloadUrl'),
\* .get('nextPageToken', None), .get('items', []) and ['access_token'].
EmptyBody == [downloadUrl |-> None, items |-> <<>>, nextPageToken |-> None,
              access_token |-> <<>>]

NoResponse == [id |-> 0, status |-> 0, body |-> EmptyBody]
NoResult == [kind |-> "none", response |-> NoResponse, exc |-> None]
Returned(r) == [kind |-> "response", response |-> r, exc |-> None]
Raised(e) == [kind |-> "exception", response |-> NoResponse, exc |-> e]

\* Nothing done yet about an expired download link: no get_file lookup made
\* (line 105), no file description received, no download made again (line 107).
NoRelink == [lookups |-> <<>>, descs |-> <<>>, relinks |-> <<>>]

NoCall == [fn |-> None, caller |-> "user", file_id |-> <<>>, url |-> None,
           refreshed |-> FALSE, count |-> 0, page_token |-> None]

---------------------------------------------------------------------------
(* The remote servers                                                      *)

\* Index of the page a listing request asks for: no pageToken is page 1, the
\* token handed out with page k is page k + 1.
PageIndex(params) ==
    IF params = <<>> \/ params[1].pageToken = None \/ params[1].pageToken = ""
    THEN 1
    ELSE LET tk == params[1].pageToken
         IN  1 + (CHOOSE k \in 1..Len(TokenNames) : TokenNames[k] = tk)

IsListing(path) == path = <<"files">> \/ Last(path) = "comments"

\* The bodies the API server may send for a request it answers with `status`.
ServerBodies(path, params, status) ==
    IF status # 200 THEN {EmptyBody}
    ELSE IF IsListing(path)
    THEN IF PageIndex(params) \in 1..Len(pages)
         THEN {[EmptyBody EXCEPT !.items = pages[PageIndex(params)].items,
                                 !.nextPageToken = pages[PageIndex(params)].nextPageToken]}
         ELSE {EmptyBody}
    ELSE {[EmptyBody EXCEPT !.downloadUrl = u] : u \in {NewUrl, None}}

\* The token endpoint: 200 with an access_token, or an error body without one.
TokenResponses ==
    {[status |-> 200, body |-> [EmptyBody EXCEPT !.access_token = <<t>>]] : t \in FreshTokens}
    \cup {[status |-> 400, body |-> EmptyBody]}

---------------------------------------------------------------------------
(* Requests as the client builds them                                      *)

\* One HTTP round-trip, as logged.
Round(kind, method, url, params, data, bearer, status, granted) ==
    [kind |-> kind, method |-> method, url |-> url, params |-> params,
     data |-> data, bearer |-> bearer, status |-> status, granted |-> granted]

\* refresh_data of __refresh_token
RefreshData == [refresh_token |-> refresh_token, client_id |-> client_id,
                client_secret |-> client_secret, grant_type |-> "refresh_token"]

\* `response['access_token']` (line 44): the token, or nothing when the key is
\* missing and the subscript raises KeyError.
GrantedTokenOrNone(body) == IF body.access_token = <<>> THEN <<None>> ELSE body.access_token
GrantedToken(body) == body.access_token

\* __token_header
TokenHeaderCached(tok) == <<"Bearer", ctor.token>>
TokenHeader(tok) == <<"Bearer", tok>>

\* The arguments of `self.refresh_callback(self.token, self.refresh_token)`
RefreshCallbackArgsSwapped(tok, rtok) == <<rtok, tok>>
RefreshCallbackArgs(tok, rtok) == <<tok, rtok>>

\* Frames
RequestFrame(method, path, params, refreshed) ==
    [fn |-> "request", pc |-> "send", method |-> method, path |-> path, url |-> None,
     params |-> params, refreshed |-> refreshed, file_id |-> <<>>,
     response |-> NoResponse, file_desc |-> NoResponse]

DownloadFrame(url, refreshed, file_id) ==
    [fn |-> "download", pc |-> "send", method |-> "get", path |-> <<>>, url |-> url,
     params |-> <<>>, refreshed |-> refreshed, file_id |-> file_id,
     response |-> NoResponse, file_desc |-> NoResponse]

\* get_file, get_user_files, get_file_comments: the __request call each makes
GetFileRequest(file_id) == RequestFrame("get", <<"files", file_id>>, <<>>, FALSE)

GetUserFilesRequest(count, page_token) ==
    RequestFrame("get", <<"files">>,
                 <<[q |-> FolderFilter, maxResults |-> count, pageToken |-> page_token]>>,
                 FALSE)

GetFileCommentsRequest(file_id, count, page_token) ==
    RequestFrame("get", <<"files", file_id, "comments">>,
                 <<[maxResults |-> count, pageToken |-> page_token]>>, FALSE)

\* The recursive call of __request after the refresh (line 76)
RequestRetryUnmarked(f) == RequestFrame(f.method, f.path, <<>>, FALSE)
RequestRetry(f) == RequestFrame(f.method, f.path, <<>>, TRUE)

\* The recursive call of download after the refresh (line 101)
DownloadRetry(f) == DownloadFrame(f.url, TRUE, <<>>)

\* The recursive call of download with the fresh downloadUrl (lines 107-111)
DownloadRelinkKeepsFileId(f) == DownloadFrame(f.file_desc.body.downloadUrl, f.refreshed, f.file_id)
DownloadRelink(f) == DownloadFrame(f.file_desc.body.downloadUrl, f.refreshed, <<>>)

\* The `return response` of line 120, reached when the lookup failed
LookupFailedReturnsDescription(f) == f.file_desc
LookupFailedReturn(f) == f.response

\* `if response.status_code == 401` followed by `if refreshed: return response`
NeedsRefreshOnDenied(status, refreshed) == status \in {401, 403} /\ ~refreshed
NeedsRefresh(status, refreshed) == status = 401 /\ ~refreshed

\* `if response.status_code == 403 and file_id is not None`
LinkExpired(status, file_id) == status = 403 /\ file_id # <<>>

\* `if file_desc.status_code == 200`
DescriptionOk(file_desc) == file_desc.status = 200

---------------------------------------------------------------------------
(* Returning and raising                                                   *)

\* A value returned by the innermost frame travels down the stack: a frame
\* waiting on its own retry returns it unchanged, download's frame waiting on
\* get_file keeps it as file_desc and goes on.
RECURSIVE Unwind(_, _)
Unwind(stk, r) ==
    IF stk = <<>> THEN [stack |-> <<>>, ret |-> <<r>>]
    ELSE IF Last(stk).pc = "wait_lookup"
    THEN [stack |-> Front(stk) \o <<[Last(stk) EXCEPT !.pc = "after_lookup",
                                                      !.file_desc = r]>>,
          ret |-> <<>>]
    ELSE Unwind(Front(stk), r)

\* The innermost frame returns r.
Return(r) ==
    LET u == Unwind(Front(stack), r)
    IN  /\ stack' = u.stack
        /\ IF u.ret = <<>>
           THEN UNCHANGED <<outcome, result>>
           ELSE outcome' = "returned" /\ result' = Returned(u.ret[1])

\* An exception is caught nowhere: it ends the public call.
Raise(e) ==
    /\ stack' = <<>>
    /\ outcome' = "raised"
    /\ result' = Raised(e)

\* A public call starts: the ghost logs are those of this call.
Begin(c, frame) ==
    /\ stack = <<>>
    /\ call' = c
    /\ stack' = <<frame>>
    /\ outcome' = "running"
    /\ result' = NoResult
    /\ http' = <<>>
    /\ cbLog' = <<>>
    /\ errors' = 0
    /\ dl' = NoRelink

---------------------------------------------------------------------------
(* Public calls made by the user of the client                             *)

UserIdle == stack = <<>> /\ \A g \in DOMAIN gen : gen[g].pc # "running"

GetFile(file_id) ==
    /\ UserIdle
    /\ Begin([NoCall EXCEPT !.fn = "get_file", !.file_id = <<file_id>>],
             GetFileRequest(file_id))
    /\ UNCHANGED <<clientVars, pages, gen>>

GetUserFiles(count, page_token) ==
    /\ UserIdle
    /\ Begin([NoCall EXCEPT !.fn = "get_user_files", !.count = count,
                            !.page_token = page_token],
             GetUserFilesRequest(count, page_token))
    /\ UNCHANGED <<clientVars, pages, gen>>

GetFileComments(file_id, count, page_token) ==
    /\ UserIdle
    /\ Begin([NoCall EXCEPT !.fn = "get_file_comments", !.file_id = <<file_id>>,
                            !.count = count, !.page_token = page_token],
             GetFileCommentsRequest(file_id, count, page_token))
    /\ UNCHANGED <<clientVars, pages, gen>>

Download(url, refreshed, file_id) ==
    /\ UserIdle
    /\ Begin([NoCall EXCEPT !.fn = "download", !.url = url, !.refreshed = refreshed,
                            !.file_id = file_id],
             DownloadFrame(url, refreshed, file_id))
    /\ UNCHANGED <<clientVars, pages, gen>>

---------------------------------------------------------------------------
(* Steps of the running call                                               *)

Top == Last(stack)
SetTop(f) == Front(stack) \o <<f>>

\* May the server answer 401 now?  Always for a user's call; the fetches of
\* the generators are given a bounded number of 401s between them, as a
\* generator may otherwise go on for ever.
RECURSIVE Denials(_)
Denials(names) ==
    IF names = {} THEN 0
    ELSE LET g == CHOOSE x \in names : TRUE
         IN  gen[g].n401 + Denials(names \ {g})

May401 == call.caller = "user" \/ Denials(DOMAIN gen) < MaxGen401

ServerStatuses == IF May401 THEN Statuses ELSE Statuses \ {401}

\* __request, lines 66-78 up to the refresh: send, then branch on the status.
RequestSend ==
    /\ stack # <<>> /\ Top.fn = "request" /\ Top.pc = "send"
    /\ \E status \in ServerStatuses :
       \E body \in ServerBodies(Top.path, Top.params, status) :
          LET response == [id |-> Len(http) + 1, status |-> status, body |-> body]
          IN  /\ http' = Append(http, Round("api", Top.method, <<BaseUrl>> \o Top.path,
                                            Top.params, <<>>, TokenHeader(token), status, <<>>))
              /\ IF NeedsRefresh(status, Top.refreshed)
                 THEN /\ stack' = SetTop([Top EXCEPT !.pc = "refresh", !.response = response])
                      /\ UNCHANGED <<outcome, result>>
                 ELSE Return(response)
    /\ UNCHANGED <<clientVars, call, cbLog, errors, dl, pages>>
    /\ gen' = IF call.caller # "user" /\ http'[Len(http')].status = 401
              THEN [gen EXCEPT ![call.caller].n401 = @ + 1] ELSE gen

\* download, lines 93-105 and 120: send, then branch on the status.
DownloadSend ==
    /\ stack # <<>> /\ Top.fn = "download" /\ Top.pc = "send"
    /\ IF Top.url = None
       THEN \* requests refuses a URL that is None
            /\ Raise("MissingSchema")
            /\ UNCHANGED <<http, dl>>
       ELSE \E status \in ServerStatuses :
               LET response == [id |-> Len(http) + 1, status |-> status, body |-> EmptyBody]
               IN  /\ http' = Append(http, Round("download", "get", Top.url, <<>>, <<>>,
                                                 TokenHeader(token), status, <<>>))
                   /\ IF status = 401
                      THEN IF NeedsRefresh(status, Top.refreshed)
                           THEN /\ stack' = SetTop([Top EXCEPT !.pc = "refresh",
                                                               !.response = response])
                                /\ UNCHANGED <<outcome, result, dl>>
                           ELSE Return(response) /\ UNCHANGED dl
                      ELSE IF LinkExpired(status, Top.file_id)
                      THEN /\ stack' = SetTop([Top EXCEPT !.pc = "wait_lookup",
                                                          !.response = response])
                                       \o <<GetFileRequest(Top.file_id[1])>>
                           /\ dl' = [dl EXCEPT !.lookups = Append(@, Top.file_id[1])]
                           /\ UNCHANGED <<outcome, result>>
                      ELSE Return(response) /\ UNCHANGED dl
    /\ UNCHANGED <<clientVars, call, cbLog, errors, pages, gen>>

\* __refresh_token (lines 34-47), then the recursive call of the frame that
\* asked for it (line 76 or line 101).
RefreshToken ==
    /\ stack # <<>> /\ Top.pc = "refresh"
    /\ \E answer \in TokenResponses :
          /\ http' = Append(http, Round("token", "post", TokenUrl, <<>>, <<RefreshData>>,
                                        <<>>, answer.status, answer.body.access_token))
          /\ IF GrantedToken(answer.body) = <<>>
             THEN \* response['access_token'] raises KeyError
                  /\ Raise("KeyError")
                  /\ UNCHANGED <<token, cbLog>>
             ELSE /\ token' = GrantedToken(answer.body)[1]
                  /\ cbLog' = IF refresh_callback # None
                              THEN Append(cbLog, RefreshCallbackArgs(token', refresh_token))
                              ELSE cbLog
                  /\ stack' = SetTop([Top EXCEPT !.pc = "wait_retry"])
                              \o <<IF Top.fn = "request" THEN RequestRetry(Top)
                                                         ELSE DownloadRetry(Top)>>
                  /\ UNCHANGED <<outcome, result>>
    /\ UNCHANGED <<refresh_token, client_id, client_secret, refresh_callback, ctor,
                   call, errors, dl, pages, gen>>

\* download, lines 106-120: get_file has returned file_desc.
DownloadAfterLookup ==
    /\ stack # <<>> /\ Top.fn = "download" /\ Top.pc = "after_lookup"
    /\ IF DescriptionOk(Top.file_desc)
       THEN /\ stack' = SetTop([Top EXCEPT !.pc = "wait_retry"]) \o <<DownloadRelink(Top)>>
            /\ dl' = [dl EXCEPT !.descs = Append(@, Top.file_desc),
                                !.relinks = Append(@, [url |-> DownloadRelink(Top).url,
                                                       refreshed |-> DownloadRelink(Top).refreshed,
                                                       file_id |-> DownloadRelink(Top).file_id])]
            /\ UNCHANGED <<outcome, result, errors>>
       ELSE /\ errors' = errors + 1
            /\ dl' = [dl EXCEPT !.descs = Append(@, Top.file_desc)]
            /\ Return(LookupFailedReturn(Top))
    /\ UNCHANGED <<clientVars, call, http, cbLog, pages, gen>>

---------------------------------------------------------------------------
(* The client used through its plain calls                                 *)

DefaultPages == <<[items |-> <<<<1, 1>>, <<1, 2>>>>, nextPageToken |-> TokenNames[1]],
                  [items |-> <<<<2, 1>>>>, nextPageToken |-> None]>>

NoGen == [g \in {} |-> 0]

\* __init__
Construct(tok, rtok, cid, secret, callback) ==
    /\ token = tok
    /\ refresh_token = rtok
    /\ client_id = cid
    /\ client_secret = secret
    /\ refresh_callback = callback
    /\ ctor = [token |-> tok, refresh_token |-> rtok, client_id |-> cid,
               client_secret |-> secret, refresh_callback |-> callback]

IdleCall ==
    /\ stack = <<>>
    /\ call = NoCall
    /\ outcome = "idle"
    /\ result = NoResult
    /\ http = <<>>
    /\ cbLog = <<>>
    /\ errors = 0
    /\ dl = NoRelink

Init ==
    /\ \E callback \in {None, "callback"} :
          Construct("tok0", "rtok", "client-id", "client-secret", callback)
    /\ IdleCall
    /\ pages = DefaultPages
    /\ gen = NoGen

UserCall ==
    \/ \E f \in FileIds : GetFile(f)
    \/ \E pt \in {None, TokenNames[1]} : GetUserFiles(DefaultCount, pt)
    \/ \E f \in FileIds, pt \in {None, TokenNames[1]} : GetFileComments(f, DefaultCount, pt)
    \/ \E refreshed \in BOOLEAN, file_id \in {<<>>} \cup {<<f>> : f \in FileIds} :
          Download(OldUrl, refreshed, file_id)

Step ==
    \/ RequestSend
    \/ DownloadSend
    \/ RefreshToken
    \/ DownloadAfterLookup

Next == UserCall \/ Step

Spec == Init /\ [][Next]_vars

---------------------------------------------------------------------------
(* The pagination generators                                               *)

\* A generator object: its position, its locals, and (ghost) what it has
\* yielded, the page tokens it has passed to its fetches, the status each
\* fetch ended with and the number of 401 answers its fetches have met.
NewGenerator(file_id, count) ==
    [pc |-> "created", file_id |-> file_id, count |-> count,
     next_page_token |-> None, items |-> <<>>, idx |-> 1,
     yielded |-> <<>>, sent |-> <<>>, answers |-> <<>>, n401 |-> 0]

\* `not next_page_token`
Falsy(t) == t = None \/ t = ""

\* The call at the top of the loop of get_user_files_generator (lines 151-152)
FilesGenFetchFirstPage(s) == GetUserFilesRequest(s.count, None)
FilesGenFetch(s) == GetUserFilesRequest(s.count, s.next_page_token)

\* The call at the top of the loop of get_file_comments_generator (lines 183-184)
CommentsGenFetchFirstPage(s) == GetFileCommentsRequest(s.file_id, s.count, None)
CommentsGenFetch(s) == GetFileCommentsRequest(s.file_id, s.count, s.next_page_token)

\* The loop condition at the bottom of both generators: `if not next_page_token: break`
LastPageWhenTruthy(s) == ~Falsy(s.next_page_token)
LastPage(s) == Falsy(s.next_page_token)

\* `for item in response.get('items', [])`: is there a next item to yield?
HasItemButLast(s) == s.idx < Len(s.items)
HasItem(s) == s.idx <= Len(s.items)

\* Generator g, in state s, calls fn through `frame` to fetch a page.
GenFetch(g, s, fn, frame) ==
    /\ Begin([NoCall EXCEPT !.fn = fn, !.caller = g, !.count = s.count,
                            !.page_token = s.next_page_token],
             frame)
    /\ gen' = [gen EXCEPT ![g] = [s EXCEPT !.pc = "running",
                                           !.sent = Append(@, frame.params[1].pageToken)]]

\* Generator g runs on from the head of its `for item in ...` loop, in state
\* s: it yields the next item of the page, or leaves the loop and either
\* stops or fetches the next page.
GenRun(g, s, fn, frame) ==
    IF HasItem(s)
    THEN /\ gen' = [gen EXCEPT ![g] = [s EXCEPT !.pc = "suspended", !.idx = @ + 1,
                                                !.yielded = Append(@, s.items[s.idx])]]
         /\ UNCHANGED callVars
    ELSE IF LastPage(s)
    THEN /\ gen' = [gen EXCEPT ![g] = [s EXCEPT !.pc = "done"]]
         /\ UNCHANGED callVars
    ELSE GenFetch(g, s, fn, frame)

\* The consumer asks generator g for its next item.
GenNext(g, fn, frame) ==
    /\ UserIdle
    /\ g \in DOMAIN gen
    /\ gen[g].pc \in {"created", "suspended"}
    /\ IF gen[g].pc = "created"
       THEN GenFetch(g, gen[g], fn, frame)
       ELSE GenRun(g, gen[g], fn, frame)
    /\ UNCHANGED <<clientVars, pages>>

\* The fetch of generator g has ended: `.json()`, `.get('nextPageToken', None)`,
\* then the `for` loop over `.get('items', [])`.
Received(s) ==
    [s EXCEPT !.next_page_token = result.response.body.nextPageToken,
              !.items = result.response.body.items,
              !.idx = 1,
              !.answers = Append(@, result.response.status)]

GenReceive(g, fn, frame) ==
    /\ g \in DOMAIN gen
    /\ gen[g].pc = "running"
    /\ stack = <<>>
    /\ call.caller = g
    /\ IF outcome = "raised"
       THEN /\ gen' = [gen EXCEPT ![g].pc = "raised"]
            /\ UNCHANGED callVars
       ELSE GenRun(g, Received(gen[g]), fn, frame)
    /\ UNCHANGED <<clientVars, pages>>

\* get_user_files_generator
FilesGenNext ==
    GenNext("files", "get_user_files", FilesGenFetch(gen["files"]))

FilesGenReceive ==
    GenReceive("files", "get_user_files", FilesGenFetch(Received(gen["files"])))

\* get_file_comments_generator
CommentsGenNext ==
    GenNext("comments", "get_file_comments", CommentsGenFetch(gen["comments"]))

CommentsGenReceive ==
    GenReceive("comments", "get_file_comments", CommentsGenFetch(Received(gen["comments"])))

\* The server's listing: pages 1..n of 0..MaxItems items each, every page
\* but the last with a nextPageToken, the last with none or an empty one.
MakePages(sizes, lastToken) ==
    [k \in 1..Len(sizes) |->
        [items |-> [i \in 1..sizes[k] |-> <<k, i>>],
         nextPageToken |-> IF k < Len(sizes) THEN TokenNames[k] ELSE lastToken]]

Listings(maxPages) ==
    {MakePages(sizes, lastToken) :
        sizes \in UNION {[1..n -> 0..MaxItems] : n \in 1..maxPages},
        lastToken \in {None, ""}}

InitGen ==
    /\ Construct("tok0", "rtok", "client-id", "client-secret", "callback")
    /\ IdleCall
    /\ pages \in Listings(MaxPages)
    /\ \E g \in {"files", "comments"} :
          gen = [x \in {g} |-> NewGenerator("F1", DefaultCount)]

\* Both generators over the same listing
InitPair ==
    /\ Construct("tok0", "rtok", "client-id", "client-secret", "callback")
    /\ IdleCall
    /\ pages \in Listings(PairPages)
    /\ gen = [x \in {"files", "comments"} |-> NewGenerator("F1", DefaultCount)]

NextGen ==
    \/ FilesGenNext
    \/ FilesGenReceive
    \/ CommentsGenNext
    \/ CommentsGenReceive
    \/ RequestSend
    \/ RefreshToken

SpecGen == InitGen /\ [][NextGen]_vars

SpecPair == InitPair /\ [][NextGen]_vars

---------------------------------------------------------------------------
(* Properties of the plain calls                                           *)

RequestFns == {"get_file", "get_user_files", "get_file_comments"}
ThroughRequest == call.caller = "user" /\ call.fn \in RequestFns
InDownload == call.caller = "user" /\ call.fn = "download"

\* The round-trips of the current call that went to the API or to a download
\* URL (all but the token POSTs), and the token POSTs.
IsToken(r) == r.kind = "token"
NotToken(r) == r.kind # "token"
IsGranted(r) == r.kind = "token" /\ r.granted # <<>>
IsDownload(r) == r.kind = "download"
Attempts == SelectSeq(http, NotToken)
TokenPosts == SelectSeq(http, IsToken)
Refreshes == SelectSeq(http, IsGranted)
DownloadGets == SelectSeq(http, IsDownload)

\* The response of round-trip i of the current call is what the call returned.
ReturnedRound(i) ==
    /\ outcome = "returned"
    /\ result.kind = "response"
    /\ result.response.id = i
    /\ result.response.status = http[i].status

\* First attempt 401, token granted, second attempt 200.
RefreshedThenOk ==
    /\ ThroughRequest
    /\ Len(http) >= 3
    /\ http[1].kind = "api" /\ http[1].status = 401
    /\ http[2].kind = "token"
    /\ http[3].kind = "api" /\ http[3].status = 200

\* C1: a call through __request whose first attempt is answered 401 and whose
\* attempt after the token refresh is answered 200 returns that 200 response
\* after these three round-trips, and the refresh callback (when one was
\* given) has been invoked exactly once in the call, with the access token the
\* token endpoint granted and the refresh token.
C1_RefreshThenOkReturnsOk ==
    RefreshedThenOk =>
        /\ Len(http) = 3
        /\ ReturnedRound(3)
        /\ token = http[2].granted[1]
        /\ IF refresh_callback = None
           THEN cbLog = <<>>
           ELSE cbLog = << <<http[2].granted[1], ctor.refresh_token>> >>

C1_Witness ==
    /\ RefreshedThenOk
    /\ call.fn = "get_user_files"
    /\ refresh_callback # None
    /\ outcome = "returned"
    /\ Len(cbLog) = 1

\* C2: a 401 that persists after the refresh is returned as it is: once the
\* second attempt of a call through __request is answered 401, the call has
\* returned that response, and it made exactly two attempts (the original and
\* one retry) with one token POST between them.
PersistentDenial ==
    /\ ThroughRequest
    /\ Len(Attempts) >= 2
    /\ Attempts[1].status = 401 /\ Attempts[2].status = 401

C2_PersistentDenialReturned ==
    PersistentDenial =>
        /\ Len(Attempts) = 2
        /\ Len(http) = 3
        /\ ReturnedRound(3)
        /\ result.response.status = 401
        /\ stack = <<>>

C2_Witness ==
    /\ PersistentDenial
    /\ call.fn = "get_file"
    /\ outcome = "returned"
    /\ result.response.status = 401

\* C3: in get_user_files and get_file_comments every attempt of a call sends
\* the same request as the first attempt: same method, same URL and the same
\* query parameters; only the bearer token may differ.
C3_RetrySendsSameRequest ==
    (call.caller = "user" /\ call.fn \in {"get_user_files", "get_file_comments"}) =>
        \A i \in 1..Len(Attempts) :
            /\ Attempts[i].method = Attempts[1].method
            /\ Attempts[i].url = Attempts[1].url
            /\ Attempts[i].params = Attempts[1].params

C5_RefreshAtMostOnce ==
    (call.caller = "user" /\ ~call.refreshed) => Len(Refreshes) <= 1

\* C8: in download(url, file_id=F) whose GET on url is answered 403 and whose
\* get_file(F) returns 200 with a downloadUrl U, download is called again
\* exactly once, with U, file_id=None and the refreshed flag it was given;
\* what that call returns is what the caller gets, and it is the answer to a
\* GET on U: the first one, unless that was a 401 answered by a token refresh
\* and a second GET on U.  A 403 on U is returned with no second lookup.  No
\* download call makes more than one get_file lookup, and none is made when
\* file_id is None.
FreshLink ==
    /\ InDownload
    /\ call.file_id # <<>>
    /\ Len(http) >= 1 /\ http[1].status = 403
    /\ Len(dl.descs) >= 1
    /\ dl.descs[1].status = 200
    /\ dl.descs[1].body.downloadUrl # None

OnNewUrl(r) == r.kind = "download" /\ r.url = dl.descs[1].body.downloadUrl
NewUrlGets == SelectSeq(http, OnNewUrl)

C8_ExpiredLinkRetriedOnce ==
    /\ InDownload => Len(dl.lookups) <= 1
    /\ (InDownload /\ call.file_id = <<>>) => dl.lookups = <<>>
    /\ FreshLink =>
          /\ dl.lookups = call.file_id
          /\ dl.relinks = <<[url |-> dl.descs[1].body.downloadUrl,
                             refreshed |-> call.refreshed, file_id |-> <<>>]>>
          /\ Len(NewUrlGets) <= 2
          /\ Len(DownloadGets) = 1 + Len(NewUrlGets)
          /\ outcome = "returned" =>
                /\ Last(http).kind = "download"
                /\ Last(http).url = dl.descs[1].body.downloadUrl
                /\ ReturnedRound(Len(http))
          /\ (NewUrlGets # <<>> /\ NewUrlGets[1].status # 401) =>
                /\ Len(NewUrlGets) = 1
                /\ ReturnedRound(Len(http))
                /\ result.response.status = NewUrlGets[1].status

C8_Witness ==
    /\ FreshLink
    /\ outcome = "returned"
    /\ Len(NewUrlGets) = 1
    /\ result.response.status = 403
    /\ Len(dl.lookups) = 1

\* C9: in download(url, file_id=F) whose GET on url is answered 403 and whose
\* get_file(F) lookup ends with a status other than 200, the call returns the
\* 403 response of that first GET, one error has been logged, and no other
\* download GET was made.
FailedLookup ==
    /\ InDownload
    /\ call.file_id # <<>>
    /\ Len(http) >= 1 /\ http[1].status = 403
    /\ Len(dl.descs) >= 1
    /\ dl.descs[1].status # 200

C9_FailedLookupReturnsOriginal ==
    FailedLookup =>
        /\ ReturnedRound(1)
        /\ result.response.status = 403
        /\ errors = 1
        /\ Len(DownloadGets) = 1
        /\ dl.relinks = <<>>
        /\ stack = <<>>

C9_Witness ==
    /\ FailedLookup
    /\ dl.descs[1].status = 404
    /\ outcome = "returned"
    /\ errors = 1

\* C10: refresh_token, client_id, client_secret and refresh_callback always
\* hold the values given to the constructor, and a step changes the access
\* token only if it is the token refresh, made in reaction to a 401 response,
\* and the token endpoint granted the new value.
C10_CredentialsFrame ==
    [][ /\ refresh_token' = ctor.refresh_token
        /\ client_id' = ctor.client_id
        /\ client_secret' = ctor.client_secret
        /\ refresh_callback' = ctor.refresh_callback
        /\ ctor' = ctor
        /\ token' # token =>
              /\ stack # <<>>
              /\ Last(stack).pc = "refresh"
              /\ Last(stack).response.status = 401
              /\ Last(http).status = 401
              /\ Len(http') = Len(http) + 1
              /\ Last(http').kind = "token"
              /\ Last(http').granted = <<token'>>
      ]_vars

C10_Witness ==
    /\ token # ctor.token
    /\ outcome = "returned"
    /\ call.fn = "download"
    /\ refresh_token = ctor.refresh_token

\* C11: when the first attempt of a call through __request is answered with
\* a status other than 401, the call returns that response after exactly one
\* HTTP round-trip: no token POST is made, the stored access token is still
\* the one the request was sent with, and the refresh callback is not invoked.
FirstAttemptNotDenied ==
    /\ ThroughRequest
    /\ Len(http) >= 1
    /\ http[1].status # 401

C11_OtherStatusReturnedVerbatim ==
    FirstAttemptNotDenied =>
        /\ Len(http) = 1
        /\ ReturnedRound(1)
        /\ stack = <<>>
        /\ TokenPosts = <<>>
        /\ TokenHeader(token) = http[1].bearer
        /\ cbLog = <<>>

C11_Witness ==
    /\ FirstAttemptNotDenied
    /\ call.fn = "get_file_comments"
    /\ outcome = "returned"
    /\ result.response.status = 500
    /\ refresh_callback # None

\* C12: in download(url, file_id=F) whose first GET is answered 401 and whose
\* GET made after the refresh is answered 403, get_file(F) is called, as it
\* is when the 403 comes on the first attempt.
DeniedThenExpired ==
    /\ InDownload
    /\ call.file_id # <<>>
    /\ ~call.refreshed
    /\ Len(http) >= 3
    /\ http[1].kind = "download" /\ http[1].status = 401
    /\ http[2].kind = "token" /\ http[2].granted # <<>>
    /\ http[3].kind = "download" /\ http[3].status = 403

C12_LinkRecoveryAfterRefresh ==
    DeniedThenExpired => dl.lookups = call.file_id

\* C14: every request sent by __request or download carries the bearer
\* header of the access token stored when it is sent; the request sent right
\* after a token refresh therefore carries the token that refresh obtained.
C14_BearerIsStoredToken ==
    [][ (Len(http') = Len(http) + 1 /\ Last(http').kind # "token") =>
            /\ Last(http').bearer = <<"Bearer", token>>
            /\ (http # <<>> /\ Last(http).kind = "token") =>
                  /\ Last(http).granted # <<>>
                  /\ Last(http').bearer = <<"Bearer", Last(http).granted[1]>>
      ]_vars

\* A retry sent with a token other than the one that was answered 401
C14_Witness ==
    /\ Len(http) >= 3
    /\ http[1].status = 401
    /\ http[2].kind = "token"
    /\ http[3].kind = "download"
    /\ http[3].bearer = <<"Bearer", token>>
    /\ http[3].bearer # http[1].bearer

\* C15: when the token endpoint's answer has no access_token, the call that
\* asked for the refresh ends there by raising (KeyError): the stored access
\* token is still the one the denied request was sent with, the callback is
\* not invoked for this refresh, and no request follows the token POST.
RefusedRefresh ==
    \E i \in 1..Len(http) : http[i].kind = "token" /\ http[i].granted = <<>>

C15_MalformedRefreshRaises ==
    RefusedRefresh =>
        /\ Last(http).kind = "token" /\ Last(http).granted = <<>>
        /\ outcome = "raised"
        /\ result = Raised("KeyError")
        /\ stack = <<>>
        /\ Len(http) >= 2
        /\ TokenHeader(token) = http[Len(http) - 1].bearer
        /\ Len(cbLog) = IF refresh_callback = None THEN 0 ELSE Len(Refreshes)

C15_Witness ==
    /\ RefusedRefresh
    /\ ThroughRequest
    /\ Len(http) = 2
    /\ refresh_callback # None
    /\ cbLog = <<>>
    /\ outcome = "raised"

\* The running call keeps running: the client is synchronous and every
\* request it sends is answered.
FairSpec == Spec /\ WF_vars(Step)

Finished == outcome \in {"returned", "raised"}

\* C18: every get_file, get_user_files, get_file_comments and download call
\* that is running eventually returns or raises, whatever statuses the server
\* answers, and never makes more than three (through __request) or seven
\* (download) HTTP round-trips; no frame refreshes the token twice and no
\* download call looks the file up twice.
C18_CallsTerminate ==
    /\ [](call.caller = "user" =>
             /\ call.fn \in RequestFns => Len(http) <= 3 /\ Len(TokenPosts) <= 1
             /\ call.fn = "download" =>
                   Len(http) <= 7 /\ Len(TokenPosts) <= 2 /\ Len(dl.lookups) <= 1
             /\ Len(stack) <= 3)
    /\ (outcome = "running") ~> Finished

\* A download against a server that answers nothing but 401 and 403
C18_Witness ==
    /\ InDownload
    /\ call.file_id # <<>>
    /\ Finished
    /\ Len(Attempts) = 3
    /\ dl.lookups # <<>>
    /\ \A i \in 1..Len(Attempts) : Attempts[i].status \in {401, 403}

---------------------------------------------------------------------------
(* Properties of the generators                                            *)

IsPrefix(a, b) == Len(a) <= Len(b) /\ SubSeq(b, 1, Len(a)) = a
Comparable(a, b) == IsPrefix(a, b) \/ IsPrefix(b, a)

\* The items of pages 1..n, page after page
RECURSIVE ItemsUpTo(_)
ItemsUpTo(n) == IF n = 0 THEN <<>> ELSE ItemsUpTo(n - 1) \o pages[n].items

AllItems == ItemsUpTo(Len(pages))

\* No page token for the first fetch, then the nextPageToken of each page
ExpectedTokens ==
    [k \in 1..Len(pages) |-> IF k = 1 THEN None ELSE pages[k - 1].nextPageToken]

\* Every fetch of the generator so far was answered 200 at once.
Untroubled(s) ==
    /\ s.n401 = 0
    /\ s.pc # "raised"
    /\ \A i \in 1..Len(s.answers) : s.answers[i] = 200

\* C6: as long as every page fetch of get_user_files_generator is answered
\* 200 (so none 401), the items yielded so far are the first items of pages
\* P1..Pn in page-then-item order and fetch k + 1 has passed the
\* nextPageToken of page k (fetch 1 none); once the generator is exhausted it
\* has yielded all the items of P1..Pn and made exactly n fetches.
C6_FilesGeneratorYieldsAllPages ==
    ("files" \in DOMAIN gen /\ Untroubled(gen["files"])) =>
        /\ IsPrefix(gen["files"].yielded, AllItems)
        /\ IsPrefix(gen["files"].sent, ExpectedTokens)
        /\ gen["files"].pc = "done" =>
              /\ gen["files"].yielded = AllItems
              /\ gen["files"].sent = ExpectedTokens
              /\ Len(gen["files"].answers) = Len(pages)

\* Pages of sizes 2, 2, 1: five items, three fetches.
C6_Witness ==
    /\ "files" \in DOMAIN gen
    /\ Untroubled(gen["files"])
    /\ gen["files"].pc = "done"
    /\ Len(pages) = 3
    /\ Len(pages[1].items) = 2 /\ Len(pages[2].items) = 2 /\ Len(pages[3].items) = 1
    /\ gen["files"].yielded = << <<1, 1>>, <<1, 2>>, <<2, 1>>, <<2, 2>>, <<3, 1>> >>
    /\ Len(gen["files"].sent) = 3

\* C7: over the same pages, with every fetch answered 200, the two
\* generators yield the same items in the same order and pass the same page
\* tokens, one never ahead of the other by anything but a suffix; exhausted,
\* both have yielded the same sequence with the same number of fetches.  When
\* the first page has no items and no nextPageToken, the exhausted comments
\* generator has yielded nothing and made exactly one fetch.
C7_GeneratorsPaginateAlike ==
    DOMAIN gen = {"files", "comments"} =>
        /\ (Untroubled(gen["files"]) /\ Untroubled(gen["comments"])) =>
              /\ Comparable(gen["files"].yielded, gen["comments"].yielded)
              /\ Comparable(gen["files"].sent, gen["comments"].sent)
              /\ (gen["files"].pc = "done" /\ gen["comments"].pc = "done") =>
                    /\ gen["files"].yielded = gen["comments"].yielded
                    /\ gen["files"].sent = gen["comments"].sent
                    /\ Len(gen["files"].answers) = Len(gen["comments"].answers)
        /\ ( /\ Untroubled(gen["comments"])
             /\ gen["comments"].pc = "done"
             /\ pages[1].items = <<>>
             /\ Falsy(pages[1].nextPageToken) ) =>
              /\ gen["comments"].yielded = <<>>
              /\ Len(gen["comments"].sent) = 1
              /\ Len(gen["comments"].answers) = 1

C7_Witness ==
    /\ DOMAIN gen = {"files", "comments"}
    /\ Untroubled(gen["files"]) /\ Untroubled(gen["comments"])
    /\ gen["files"].pc = "done" /\ gen["comments"].pc = "done"
    /\ Len(pages) = 2
    /\ Len(gen["comments"].yielded) = 2 * MaxItems
    /\ Len(gen["comments"].sent) = 2

\* Every fetch of the generator so far has ended with a 200 response, some
\* of them on the attempt made after a token refresh.
RefreshedMidway(s) ==
    /\ s.n401 >= 1
    /\ s.pc # "raised"
    /\ \A i \in 1..Len(s.answers) : s.answers[i] = 200

\* C13: when a page fetch of a generator is answered 401 and succeeds after
\* the token refresh, the generator still yields the items of P1..Pn in
\* page-then-item order, each once: what it has yielded is at all times a
\* prefix of those items, and all of them once it is exhausted.
C13_PaginationSurvivesRefresh ==
    \A g \in DOMAIN gen :
        RefreshedMidway(gen[g]) =>
            /\ IsPrefix(gen[g].yielded, AllItems)
            /\ gen[g].pc = "done" => gen[g].yielded = AllItems

\* C16: a page fetch of a generator that ends with a non-2xx status (JSON
\* body without items and nextPageToken) does not let the generator end
\* normally: the generator is exhausted only after fetches that all ended 2xx.
C16_FailedFetchIsObservable ==
    \A g \in DOMAIN gen :
        gen[g].pc = "done" =>
            \A i \in 1..Len(gen[g].answers) :
                gen[g].answers[i] >= 200 /\ gen[g].answers[i] < 300

\* The number of the page that holds the m-th item of the listing (m >= 1)
PageOfItem(m) == CHOOSE j \in 1..Len(pages) :
                    /\ Len(ItemsUpTo(j)) >= m
                    /\ \A i \in 1..(j - 1) : Len(ItemsUpTo(i)) < m

\* C17: the generators do not prefetch.  A generator that has not been asked
\* for an item has made no fetch; whenever a fetch is under way every item
\* of the pages fetched before has been yielded; and, with every fetch
\* answered 200, a generator suspended after yielding m items has fetched
\* exactly the pages up to the one that holds item m, and one that is fetching
\* page k has yielded exactly the items of pages 1..k-1.
C17_NoPrefetch ==
    \A g \in DOMAIN gen :
        /\ gen[g].pc = "created" => gen[g].sent = <<>> /\ gen[g].yielded = <<>>
        /\ gen[g].pc = "running" => gen[g].idx > Len(gen[g].items)
        /\ gen[g].pc = "suspended" =>
              /\ gen[g].yielded # <<>>
              /\ Last(gen[g].yielded) = gen[g].items[gen[g].idx - 1]
        /\ Untroubled(gen[g]) =>
              /\ gen[g].pc = "suspended" =>
                    Len(gen[g].sent) = PageOfItem(Len(gen[g].yielded))
              /\ gen[g].pc = "running" =>
                    gen[g].yielded = ItemsUpTo(Len(gen[g].sent) - 1)

\* Suspended on the last item of page 1 while page 2 exists and is not fetched
C17_Witness ==
    /\ "files" \in DOMAIN gen
    /\ Untroubled(gen["files"])
    /\ gen["files"].pc = "suspended"
    /\ Len(pages) >= 2
    /\ Len(pages[1].items) = 2
    /\ Len(gen["files"].yielded) = 2
    /\ Len(gen["files"].sent) = 1

====
